---- MODULE Spec2Model ----
(***************************************************************************)
(* The two notebooks of the lecture as state machines.                     *)
(*                                                                         *)
(*  - smd_boosting.ipynb: the cells from read_events to train_test_split,  *)
(*    one action per cell, over data frames of named columns.              *)
(*  - smd_neural_networks_torch.ipynb: the training cell with train, test, *)
(*    fit_one_epoch, accuracy, predictions and report_accuracy, one action *)
(*    per call, batch, return and step of an exception leaving a call.     *)
(***************************************************************************)
EXTENDS Integers, Sequences, FiniteSets, Bags, TLC

(***************************************************************************)
(* Bounds of the model.                                                    *)
(***************************************************************************)
\* rows of an event table
MaxRows == 3
\* cell values are NaN or 1..MaxVal
MaxVal == 2
\* rows of a complete event table, which reaches the split
MaxEvents == 2
\* characters appended to a stem to make a column name
MaxSuffix == 2
\* batches a data loader yields
MaxBatches == 2
\* samples of a batch, the notebook's batch_size
BatchSize == 2
\* epochs of the training cell, the notebook's epochs
Epochs == 2

(***************************************************************************)
(* Strings the regular expression looks into are tuples of characters.     *)
(***************************************************************************)
true_ == <<"t", "r", "u", "e", "_">>
obs_id == <<"o", "b", "s", "_", "i", "d">>
event_id == <<"e", "v", "e", "n", "t", "_", "i", "d">>
tels_with_trigger == <<"t", "e", "l", "s", "_", "w", "i", "t", "h", "_", "t", "r", "i", "g", "g", "e", "r">>
HillasReconstructor_tel_ids == <<"H", "i", "l", "l", "a", "s", "R", "e", "c", "o", "n", "s", "t", "r", "u", "c", "t", "o", "r", "_", "t", "e", "l", "_", "i", "d", "s">>
hillas_intensity == <<"h", "i", "l", "l", "a", "s", "_", "i", "n", "t", "e", "n", "s", "i", "t", "y">>
hillas_width == <<"h", "i", "l", "l", "a", "s", "_", "w", "i", "d", "t", "h">>
hillas_length == <<"h", "i", "l", "l", "a", "s", "_", "l", "e", "n", "g", "t", "h">>
HillasReconstructor_core_x == <<"H", "i", "l", "l", "a", "s", "R", "e", "c", "o", "n", "s", "t", "r", "u", "c", "t", "o", "r", "_", "c", "o", "r", "e", "_", "x">>
HillasReconstructor_core_y == <<"H", "i", "l", "l", "a", "s", "R", "e", "c", "o", "n", "s", "t", "r", "u", "c", "t", "o", "r", "_", "c", "o", "r", "e", "_", "y">>
pos_x == <<"p", "o", "s", "_", "x">>
pos_y == <<"p", "o", "s", "_", "y">>
HillasReconstructor_h_max == <<"H", "i", "l", "l", "a", "s", "R", "e", "c", "o", "n", "s", "t", "r", "u", "c", "t", "o", "r", "_", "h", "_", "m", "a", "x">>
awesome_feature == <<"a", "w", "e", "s", "o", "m", "e", "_", "f", "e", "a", "t", "u", "r", "e">>
impact == <<"i", "m", "p", "a", "c", "t">>
true_energy == <<"t", "r", "u", "e", "_", "e", "n", "e", "r", "g", "y">>
hillas_skewness == <<"h", "i", "l", "l", "a", "s", "_", "s", "k", "e", "w", "n", "e", "s", "s">>
hillas_kurtosis == <<"h", "i", "l", "l", "a", "s", "_", "k", "u", "r", "t", "o", "s", "i", "s">>

\* the line break, the one character '.' does not match
LF == "\n"

\* pandas' missing value; every other cell value of the model is positive
NaN == -1

(***************************************************************************)
(* Data frames: an index (the row labels) and a tuple of columns, each a   *)
(* name, whether its dtype is a number, and one value per row.             *)
(***************************************************************************)
EmptyFrame == [index |-> <<>>, cols |-> <<>>]

Column(name, numeric, vals) == [name |-> name, numeric |-> numeric, vals |-> vals]

columns(df) == {df.cols[c].name : c \in 1..Len(df.cols)}

len(df) == Len(df.index)

Iota(n) == [i \in 1..n |-> i]

RECURSIVE SumSeq(_)
SumSeq(s) == IF s = <<>> THEN 0 ELSE Head(s) + SumSeq(Tail(s))

NotNa(vals) == SelectSeq(vals, LAMBDA v : v # NaN)

\* the column of df named name
getitem(df, name) == df.cols[CHOOSE c \in 1..Len(df.cols) : df.cols[c].name = name]

(***************************************************************************)
(* re.search(f'^(?!{forbidden_columns}).*$', label) as DataFrame.filter    *)
(* applies it to each column label.  The pattern is anchored at the start; *)
(* the negative lookahead rejects a label that starts with one of the      *)
(* alternatives of forbidden_columns; '.*' takes characters other than the *)
(* line break, and '$' matches at the end of the label or just before a    *)
(* line break that ends it.                                                *)
(***************************************************************************)
StartsWith(s, p) == Len(p) <= Len(s) /\ SubSeq(s, 1, Len(p)) = p

Lookahead(s, alternatives) ==
    \E a \in 1..Len(alternatives) : StartsWith(s, alternatives[a])

DollarAt(s, k) == k = Len(s) \/ (k = Len(s) - 1 /\ s[Len(s)] = LF)

DotStarDollar(s) ==
    \E k \in 0..Len(s) : (\A j \in 1..k : s[j] # LF) /\ DollarAt(s, k)

re_search(s, alternatives) == ~Lookahead(s, alternatives) /\ DotStarDollar(s)

\* df.filter(regex=...): the columns whose label the pattern matches
filter(df, alternatives) ==
    [df EXCEPT !.cols = SelectSeq(@, LAMBDA col : re_search(col.name, alternatives))]

\* df.select_dtypes(exclude=['number']).columns
select_dtypes_exclude_number(df) ==
    {df.cols[c].name : c \in {c \in 1..Len(df.cols) : ~df.cols[c].numeric}}

\* df.drop(c, axis='columns')
drop(df, c) == [df EXCEPT !.cols = SelectSeq(@, LAMBDA col : col.name \notin c)]

\* Series.count(): the number of cells that are not NaN
count(col) == Len(NotNa(col.vals))

\* Series.std() with ddof=1, as n (n - 1) std^2 = n sum(x^2) - sum(x)^2 over the
\* n cells that are not NaN, which is 0 exactly when std is; NaN when n < 2
std(col) ==
    LET x == NotNa(col.vals)
        n == Len(x)
    IN  IF n < 2 THEN NaN
        ELSE n * SumSeq([i \in 1..n |-> x[i] * x[i]]) - SumSeq(x) * SumSeq(x)

\* df.describe() of a frame of numeric columns: per column its count and std.
\* pandas raises ValueError on a frame without columns.
describe_raises(df) == Len(df.cols) = 0

describe(df) ==
    [c \in 1..Len(df.cols) |->
        [name |-> df.cols[c].name, count |-> count(df.cols[c]), std |-> std(df.cols[c])]]

\* desc.columns[desc.loc['std'] == 0]
std_is_zero(d) == {d[c].name : c \in {c \in 1..Len(d) : d[c].std = 0}}

\* df.columns[df.count() == 0]
count_is_zero(df) ==
    {df.cols[c].name : c \in {c \in 1..Len(df.cols) : count(df.cols[c]) = 0}}

\* df.iloc[pos]: the rows at the positions pos, in that order
iloc(df, pos) ==
    [index |-> [k \in 1..Len(pos) |-> df.index[pos[k]]],
     cols |-> [c \in 1..Len(df.cols) |->
                 [df.cols[c] EXCEPT !.vals = [k \in 1..Len(pos) |-> @[pos[k]]]]]]

HasNa(df, i) == \E c \in 1..Len(df.cols) : df.cols[c].vals[i] = NaN

\* df.dropna(how='all'): the rows with a cell that is not NaN
dropna_how_all(df) ==
    iloc(df, SelectSeq(Iota(len(df)),
                       LAMBDA i : \E c \in 1..Len(df.cols) : df.cols[c].vals[i] # NaN))

\* df.dropna(): the rows without a NaN cell
dropna(df) == iloc(df, SelectSeq(Iota(len(df)), LAMBDA i : ~HasNa(df, i)))

(***************************************************************************)
(* Results of a call: a frame, or the exception it raised.                 *)
(***************************************************************************)
Return(df) == [ok |-> TRUE, df |-> df, exc |-> ""]

Raise(e) == [ok |-> FALSE, df |-> EmptyFrame, exc |-> e]

\* read_events(path): the table of the file without its two array columns;
\* Table.remove_columns raises KeyError when one of them is missing
read_events(table) ==
    IF {tels_with_trigger, HillasReconstructor_tel_ids} \subseteq columns(table)
    THEN Return(drop(table, {tels_with_trigger, HillasReconstructor_tel_ids}))
    ELSE Raise("KeyError")

\* preprocess(df), which reads the global forbidden_columns
preprocess(df, forbidden) ==
    LET df1 == filter(df, forbidden)
        df2 == drop(df1, select_dtypes_exclude_number(df1))
        df3 == drop(df2, count_is_zero(df2))
        df4 == drop(df3, std_is_zero(describe(df3)))
    IN  IF describe_raises(df3) THEN Raise("ValueError")
        ELSE Return(dropna(df4))

\* df[name] = vals: replaces the column of that name, or appends it
setitem(df, name, vals) ==
    IF name \in columns(df)
    THEN [df EXCEPT !.cols = [c \in 1..Len(@) |->
              IF @[c].name = name THEN Column(name, TRUE, vals) ELSE @[c]]]
    ELSE [df EXCEPT !.cols = Append(@, Column(name, TRUE, vals))]

\* np.sqrt on the perfect squares the tables of the model produce
sqrt(n) == CHOOSE k \in 0..n : k * k <= n /\ (k + 1) * (k + 1) > n

\* feature_generation(df) changes df in place: when a later column is missing,
\* the KeyError leaves the columns already assigned in df.  The tables of the
\* model keep hillas_width a multiple of hillas_length, so the quotient is exact.
feature_generation(df) ==
    LET n == len(df)
        has(name) == name \in columns(df)
        v(name) == getitem(df, name).vals
        df1 == setitem(df, awesome_feature,
                   [i \in 1..n |-> v(hillas_intensity)[i]
                                     * (v(hillas_width)[i] \div v(hillas_length)[i])])
        dx(i) == v(HillasReconstructor_core_x)[i] - v(pos_x)[i]
        dy(i) == v(HillasReconstructor_core_y)[i] - v(pos_y)[i]
        df2 == setitem(df1, impact, [i \in 1..n |-> sqrt(dx(i) * dx(i) + dy(i) * dy(i))])
    IN  IF ~(has(hillas_intensity) /\ has(hillas_width) /\ has(hillas_length))
        THEN [ok |-> FALSE, df |-> df, exc |-> "KeyError"]
        ELSE IF ~(has(HillasReconstructor_core_x) /\ has(pos_x)
                  /\ has(HillasReconstructor_core_y) /\ has(pos_y))
        THEN [ok |-> FALSE, df |-> df1, exc |-> "KeyError"]
        ELSE Return(df2)

\* pd.concat([a, b]): the rows of a, then those of b, over the union of their
\* columns (a's first); a cell of a column the frame does not have is NaN
concat(a, b) ==
    LET extra == SelectSeq(b.cols, LAMBDA col : col.name \notin columns(a))
        names == [c \in 1..Len(a.cols) |-> a.cols[c].name]
                     \o [c \in 1..Len(extra) |-> extra[c].name]
        part(df, name) ==
            IF name \in columns(df) THEN getitem(df, name).vals
            ELSE [i \in 1..len(df) |-> NaN]
    IN  [index |-> a.index \o b.index,
         cols |-> [c \in 1..Len(names) |->
                      Column(names[c], TRUE, part(a, names[c]) \o part(b, names[c]))]]

\* np.concatenate([np.zeros(len(gammas)), np.ones(len(protons))])
labels_swapped(g, p) == [i \in 1..len(g) |-> 0] \o [i \in 1..len(p) |-> 1]

\* np.concatenate([np.ones(len(gammas)), np.zeros(len(protons))])
labels(g, p) == [i \in 1..len(g) |-> 1] \o [i \in 1..len(p) |-> 0]

\* the shuffles np.random.permutation(n) can draw
RECURSIVE Orderings(_)
Orderings(S) ==
    IF S = {} THEN {<<>>}
    ELSE UNION {{<<x>> \o p : p \in Orderings(S \ {x})} : x \in S}

permutation(n) == Orderings(1..n)

\* train_test_split(X, y) with its defaults: test_size 0.25, shuffle.  n_test is
\* ceil(0.25 n), n_train the rest; the first n_test places of the permutation
\* index the test rows, the next n_train the training rows.  The result is the
\* list (X_train, X_test, y_train, y_test); ValueError when n_train is 0.
n_test(n) == (n + 3) \div 4

n_train(n) == n - n_test(n)

train_test_split_raises(frame) == n_train(len(frame)) = 0

train_test_split(frame, lab, perm) ==
    LET n == len(frame)
        test == [k \in 1..n_test(n) |-> perm[k]]
        train == [k \in 1..n_train(n) |-> perm[n_test(n) + k]]
    IN  <<iloc(frame, train), iloc(frame, test),
          [k \in 1..Len(train) |-> lab[train[k]]],
          [k \in 1..Len(test) |-> lab[test[k]]]>>

\* X_test, X_train, y_train, y_test = train_test_split(X, y)
unpack_misaligned(ret) ==
    [X_test |-> ret[1], X_train |-> ret[2], y_train |-> ret[3], y_test |-> ret[4]]

\* X_test, X_train, y_test, y_train = train_test_split(X, y)
unpack(ret) ==
    [X_test |-> ret[1], X_train |-> ret[2], y_test |-> ret[3], y_train |-> ret[4]]

(***************************************************************************)
(* State of the kernel running smd_boosting.ipynb.                         *)
(***************************************************************************)
VARIABLES
    gamma_events,       \* the table in the file at gamma_path
    proton_events,      \* the table in the file at proton_path
    pc,                 \* the cell to run next
    exc,                \* the exception that stopped the run, "" if none
    forbidden_columns,  \* the alternatives of the global pattern, once bound
    gammas, protons, desc,
    X, y,
    split_perm,         \* the permutation train_test_split drew
    X_train, X_test, y_train, y_test

boostingVars ==
    <<gamma_events, proton_events, pc, exc, forbidden_columns, gammas, protons,
      desc, X, y, split_perm, X_train, X_test, y_train, y_test>>

(***************************************************************************)
(* State of the kernel running the training cell of                        *)
(* smd_neural_networks_torch.ipynb.                                        *)
(***************************************************************************)
VARIABLES
    train_dataloader,   \* the number of batches the training loader yields
    test_dataloader,    \* the number of batches the test loader yields
    stack,              \* the calls in progress, the cell first
    raised,             \* the exception on its way out of the calls, "" if none
    t,                  \* the epoch of the for loop
    train_losses,       \* the cell's lists of the losses of each epoch
    test_losses,
    epoch_loss,         \* what fit_one_epoch returned to the cell
    fit_losses,         \* fit_one_epoch's local train_losses
    losses,             \* the local list of train and of test
    batch,              \* batches the running loop has taken from its loader
    correct, total,     \* locals of accuracy
    accuracy_test,      \* local of report_accuracy
    result,             \* the value the last call returned
    printed,            \* the lines printed, without their numbers
    steps,              \* optimizer.step() calls applied to the parameters
    attempts            \* times the running loop gave a batch to the model

torchVars ==
    <<train_dataloader, test_dataloader, stack, raised, t, train_losses, test_losses,
      epoch_loss, fit_losses, losses, batch, correct, total, accuracy_test, result,
      printed, steps, attempts>>

(***************************************************************************)
(* State of a fresh kernel running all the cells of a notebook from the    *)
(* first to the last.                                                      *)
(***************************************************************************)
VARIABLES
    notebook,           \* the notebook that runs
    code_cell,          \* the code cell that runs, counted from 1
    statement,          \* the statement of the cell to run next
    namespace,          \* the global names bound, with the names the body of
                        \* a function or class reads from the globals
    error               \* the exception that stopped the run, "" if none

kernelVars == <<notebook, code_cell, statement, namespace, error>>

vars == <<boostingVars, torchVars, kernelVars>>

(***************************************************************************)
(* The event tables the files may hold.                                    *)
(***************************************************************************)
Val == {NaN} \cup (1..MaxVal)

Ones(n) == [i \in 1..n |-> 1]

Ramp(n, k) == [r \in 1..n |-> k * r]

ArrayCols(n) ==
    <<Column(tels_with_trigger, FALSE, Ones(n)),
      Column(HillasReconstructor_tel_ids, FALSE, Ones(n))>>

\* the columns feature_generation and the histogram read, never constant
RequiredCols(n) ==
    <<Column(hillas_intensity, TRUE, Ramp(n, 1)),
      Column(hillas_width, TRUE, Ramp(n, 2)),
      Column(hillas_length, TRUE, Ramp(n, 1)),
      Column(HillasReconstructor_core_x, TRUE, Ramp(n, 4)),
      Column(pos_x, TRUE, Ramp(n, 1)),
      Column(HillasReconstructor_core_y, TRUE, Ramp(n, 5)),
      Column(pos_y, TRUE, Ramp(n, 1)),
      Column(HillasReconstructor_h_max, TRUE, Ramp(n, 1))>>

Table(n, cols) == [index |-> [i \in 1..n |-> i - 1], cols |-> ArrayCols(n) \o cols]

\* a column that is absent, not numeric, or numeric with any cells
ValueColumn(name, n) ==
    {<<>>, <<Column(name, FALSE, Ones(n))>>}
        \cup {<<Column(name, TRUE, vals)>> : vals \in [1..n -> Val]}

\* column names around the three prefixes
Stems ==
    {<<>>, true_, <<"t", "r", "u", "e">>, <<"x">> \o true_,
     obs_id, <<"o", "b", "s", "_", "i">>,
     event_id, <<"e", "v", "e", "n", "t", "_">>}

Suffixes == UNION {[1..k -> {"a", "_", LF}] : k \in 0..MaxSuffix}

\* both files hold the same table: a simulated column and two feature columns
\* of any content
ValueTables ==
    \E n \in 0..MaxRows :
        \E a \in ValueColumn(hillas_skewness, n),
           b \in ValueColumn(hillas_kurtosis, n) :
            /\ gamma_events = Table(n, <<Column(true_energy, TRUE, Ones(n))>> \o a \o b)
            /\ proton_events = gamma_events

\* a complete table: a feature column that is absent, constant or not
CompleteTable(n) ==
    {Table(n, RequiredCols(n) \o e) :
        e \in {<<>>, <<Column(hillas_skewness, TRUE, Ones(n))>>,
               <<Column(hillas_skewness, TRUE, Ramp(n, 1))>>}}

\* two complete tables of any numbers of events
CompleteTables ==
    \E n, m \in 0..MaxEvents :
        /\ gamma_events \in CompleteTable(n)
        /\ proton_events \in CompleteTable(m)

\* both files hold the same one-event table, with a column of any name
NameTables ==
    \E stem \in Stems, suffix \in Suffixes :
        /\ gamma_events = Table(1, RequiredCols(1) \o <<Column(stem \o suffix, TRUE, <<1>>)>>)
        /\ proton_events = gamma_events

\* files that are not event tables
NoTables == gamma_events = EmptyFrame /\ proton_events = EmptyFrame

\* the kernel before its first cell
BoostingStart ==
    /\ pc = "read_gammas"
    /\ exc = ""
    /\ forbidden_columns = <<>>
    /\ gammas = EmptyFrame
    /\ protons = EmptyFrame
    /\ desc = <<>>
    /\ X = EmptyFrame
    /\ y = <<>>
    /\ split_perm = <<>>
    /\ X_train = EmptyFrame
    /\ X_test = EmptyFrame
    /\ y_train = <<>>
    /\ y_test = <<>>

\* the other notebook's kernel, not running
TorchIdle ==
    /\ train_dataloader = 0
    /\ test_dataloader = 0
    /\ stack = <<>>
    /\ raised = ""
    /\ t = 0
    /\ train_losses = <<>>
    /\ test_losses = <<>>
    /\ epoch_loss = <<>>
    /\ fit_losses = <<>>
    /\ losses = <<>>
    /\ batch = 0
    /\ correct = 0
    /\ total = 0
    /\ accuracy_test = <<>>
    /\ result = <<>>
    /\ printed = <<>>
    /\ steps = 0
    /\ attempts = 0

\* no notebook run from top to bottom
KernelIdle ==
    /\ notebook = ""
    /\ code_cell = 0
    /\ statement = 0
    /\ namespace = <<>>
    /\ error = ""

Init ==
    /\ ValueTables \/ CompleteTables \/ NameTables \/ NoTables
    /\ BoostingStart
    /\ TorchIdle
    /\ KernelIdle

(***************************************************************************)
(* The cells, in the order of the notebook.  A cell that raises stops the  *)
(* run: exc is set and no later cell runs.                                 *)
(***************************************************************************)
At(cell) == pc = cell /\ exc = ""

\* gammas = read_events(gamma_path)
ReadGammas ==
    /\ At("read_gammas")
    /\ LET r == read_events(gamma_events)
       IN  IF r.ok
           THEN gammas' = r.df /\ pc' = "filter" /\ exc' = exc
           ELSE gammas' = gammas /\ pc' = pc /\ exc' = r.exc
    /\ UNCHANGED <<torchVars, kernelVars, gamma_events, proton_events, forbidden_columns, protons, desc, X, y,
                   split_perm, X_train, X_test, y_train, y_test>>

\* forbidden_columns = 'true_|obs_id|event_id'; gammas = gammas.filter(regex=...)
Filter ==
    /\ At("filter")
    /\ forbidden_columns' = <<true_, obs_id, event_id>>
    /\ gammas' = filter(gammas, forbidden_columns')
    /\ pc' = "select_dtypes"
    /\ UNCHANGED <<torchVars, kernelVars, gamma_events, proton_events, exc, protons, desc, X, y,
                   split_perm, X_train, X_test, y_train, y_test>>

\* c = gammas.select_dtypes(exclude=['number']).columns; gammas = gammas.drop(c)
SelectDtypes ==
    /\ At("select_dtypes")
    /\ gammas' = drop(gammas, select_dtypes_exclude_number(gammas))
    /\ pc' = "describe"
    /\ UNCHANGED <<torchVars, kernelVars, gamma_events, proton_events, exc, forbidden_columns, protons, desc,
                   X, y, split_perm, X_train, X_test, y_train, y_test>>

\* desc = gammas.describe()
Describe ==
    /\ At("describe")
    /\ IF describe_raises(gammas)
       THEN desc' = desc /\ pc' = pc /\ exc' = "ValueError"
       ELSE desc' = describe(gammas) /\ pc' = "drop_constant" /\ exc' = exc
    /\ UNCHANGED <<torchVars, kernelVars, gamma_events, proton_events, forbidden_columns, gammas, protons,
                   X, y, split_perm, X_train, X_test, y_train, y_test>>

\* c = desc.columns[desc.loc['std'] == 0]; gammas = gammas.drop(c)
DropConstant ==
    /\ At("drop_constant")
    /\ gammas' = drop(gammas, std_is_zero(desc))
    /\ pc' = "drop_all_nan"
    /\ UNCHANGED <<torchVars, kernelVars, gamma_events, proton_events, exc, forbidden_columns, protons, desc,
                   X, y, split_perm, X_train, X_test, y_train, y_test>>

\* c = gammas.columns[gammas.count() == 0]; gammas = gammas.drop(c)
DropAllNaN ==
    /\ At("drop_all_nan")
    /\ gammas' = drop(gammas, count_is_zero(gammas))
    /\ pc' = "dropna"
    /\ UNCHANGED <<torchVars, kernelVars, gamma_events, proton_events, exc, forbidden_columns, protons, desc,
                   X, y, split_perm, X_train, X_test, y_train, y_test>>

\* gammas = gammas.dropna()
DropNa ==
    /\ At("dropna")
    /\ gammas' = dropna(gammas)
    /\ pc' = "read_protons"
    /\ UNCHANGED <<torchVars, kernelVars, gamma_events, proton_events, exc, forbidden_columns, protons, desc,
                   X, y, split_perm, X_train, X_test, y_train, y_test>>

\* protons = read_events(proton_path); protons = preprocess(protons)
ReadProtons ==
    /\ At("read_protons")
    /\ LET r == read_events(proton_events)
           p == preprocess(r.df, forbidden_columns)
       IN  IF ~r.ok THEN protons' = protons /\ pc' = pc /\ exc' = r.exc
           ELSE IF ~p.ok THEN protons' = r.df /\ pc' = pc /\ exc' = p.exc
           ELSE protons' = p.df /\ pc' = "feature_generation" /\ exc' = exc
    /\ UNCHANGED <<torchVars, kernelVars, gamma_events, proton_events, forbidden_columns, gammas, desc, X, y,
                   split_perm, X_train, X_test, y_train, y_test>>

\* gammas = feature_generation(gammas); protons = feature_generation(protons)
FeatureGeneration ==
    /\ At("feature_generation")
    /\ LET g == feature_generation(gammas)
           p == feature_generation(protons)
       IN  /\ gammas' = g.df
           /\ IF ~g.ok THEN protons' = protons /\ pc' = pc /\ exc' = g.exc
              ELSE IF ~p.ok THEN protons' = p.df /\ pc' = pc /\ exc' = p.exc
              ELSE protons' = p.df /\ pc' = "hist" /\ exc' = exc
    /\ UNCHANGED <<torchVars, kernelVars, gamma_events, proton_events, forbidden_columns, desc, X, y,
                   split_perm, X_train, X_test, y_train, y_test>>

\* plt.hist(gammas[col], ...); plt.hist(protons[col], ...)
Hist ==
    /\ At("hist")
    /\ IF HillasReconstructor_h_max \in columns(gammas) \cap columns(protons)
       THEN pc' = "concat" /\ exc' = exc
       ELSE pc' = pc /\ exc' = "KeyError"
    /\ UNCHANGED <<torchVars, kernelVars, gamma_events, proton_events, forbidden_columns, gammas, protons, desc,
                   X, y, split_perm, X_train, X_test, y_train, y_test>>

\* X = pd.concat([gammas, protons]); y = np.concatenate([...])
Concat ==
    /\ At("concat")
    /\ X' = concat(gammas, protons)
    /\ y' = labels(gammas, protons)
    /\ pc' = "split"
    /\ UNCHANGED <<torchVars, kernelVars, gamma_events, proton_events, exc, forbidden_columns, gammas, protons,
                   desc, split_perm, X_train, X_test, y_train, y_test>>

\* X_test, X_train, y_test, y_train = train_test_split(X, y)
Split ==
    /\ At("split")
    /\ IF train_test_split_raises(X)
       THEN /\ pc' = pc /\ exc' = "ValueError"
            /\ UNCHANGED <<split_perm, X_train, X_test, y_train, y_test>>
       ELSE \E perm \in permutation(len(X)) :
              LET names == unpack(train_test_split(X, y, perm))
              IN  /\ split_perm' = perm
                  /\ X_test' = names.X_test
                  /\ X_train' = names.X_train
                  /\ y_test' = names.y_test
                  /\ y_train' = names.y_train
                  /\ pc' = "fit" /\ exc' = exc
    /\ UNCHANGED <<torchVars, kernelVars, gamma_events, proton_events, forbidden_columns, gammas, protons, desc,
                   X, y>>

Next ==
    \/ ReadGammas
    \/ Filter
    \/ SelectDtypes
    \/ Describe
    \/ DropConstant
    \/ DropAllNaN
    \/ DropNa
    \/ ReadProtons
    \/ FeatureGeneration
    \/ Hist
    \/ Concat
    \/ Split

Spec == Init /\ [][Next]_vars

(***************************************************************************)
(* What the claims speak of.                                               *)
(***************************************************************************)
Range(s) == {s[i] : i \in 1..Len(s)}

\* the multiset of the elements of a sequence
BagOf(s) == [e \in Range(s) |-> Cardinality({i \in 1..Len(s) : s[i] = e})]

\* a label that starts with 'true_', 'obs_id' or 'event_id'
IsForbidden(name) ==
    StartsWith(name, true_) \/ StartsWith(name, obs_id) \/ StartsWith(name, event_id)

Allowed(df) == {name \in columns(df) : ~IsForbidden(name)}

\* the frames read_events returns for the two files
GammaFrame == read_events(gamma_events).df

ProtonFrame == read_events(proton_events).df

\* the cells after the filter cell, after the preprocess cell, after the concat cell
AfterFilter ==
    pc \in {"select_dtypes", "describe", "drop_constant", "drop_all_nan", "dropna",
            "read_protons", "feature_generation", "hist", "concat", "split", "fit"}

AfterPreprocess == pc \in {"feature_generation", "hist", "concat", "split", "fit"}

AfterConcat == pc \in {"split", "fit"}

\* preprocess has just returned protons
Preprocessed == pc = "feature_generation" /\ exc = ""

\* the values of column name of df at row i
Cell(df, name, i) == getitem(df, name).vals[i]

\* row i of df: its label and its cells by column name
Row(df, i) == [label |-> df.index[i], cells |-> [name \in columns(df) |-> Cell(df, name, i)]]

\* no frame of the notebook holds a forbidden column once it was filtered
NoForbiddenColumn ==
    /\ AfterFilter => \A name \in columns(gammas) : ~IsForbidden(name)
    /\ AfterPreprocess => \A name \in columns(protons) : ~IsForbidden(name)
    /\ AfterConcat => \A name \in columns(X) : ~IsForbidden(name)

\* C1: the filter leaves no column that starts with 'true_', 'obs_id' or
\* 'event_id' and keeps every other column, in the inline cell and in
\* preprocess; no such column is in gammas, protons or X afterwards.
C1_FilterKeepsTheOthers ==
    /\ NoForbiddenColumn
    /\ pc = "select_dtypes" => columns(gammas) = Allowed(GammaFrame)
    /\ pc = "read_protons" /\ read_events(proton_events).ok =>
           columns(filter(ProtonFrame, forbidden_columns)) = Allowed(ProtonFrame)

\* C2: preprocess gives what the inline cells give on the same frame: the same
\* columns and rows when the inline cells finish, an exception when they raise.
C2_PreprocessSameAsInline ==
    /\ pc = "read_protons" /\ exc = "" =>
           preprocess(GammaFrame, forbidden_columns) = Return(gammas)
    /\ pc = "describe" /\ exc # "" =>
           ~preprocess(GammaFrame, forbidden_columns).ok

\* the values of a column of at least two rows are all equal
IsConstant(col) ==
    Len(col.vals) >= 2 /\ \A i, j \in 1..Len(col.vals) : col.vals[i] = col.vals[j]

\* C3: the frame preprocess returns has no column whose values are all equal.
C3_NoConstantColumn ==
    Preprocessed => \A c \in 1..Len(protons.cols) : ~IsConstant(protons.cols[c])

\* row i of the frame given to preprocess has no NaN in the columns it returned
Complete(i) == \A name \in columns(protons) : Cell(ProtonFrame, name, i) # NaN

\* C4: the frame preprocess returns has no NaN cell, none of its columns was
\* entirely NaN in the input, and its rows are the input rows without NaN in
\* the columns that are left, with their values.
C4_MissingDataDeleted ==
    Preprocessed =>
        /\ \A c \in 1..Len(protons.cols) : \A i \in 1..len(protons) :
               protons.cols[c].vals[i] # NaN
        /\ \A name \in columns(protons) : count(getitem(ProtonFrame, name)) > 0
        /\ columns(protons) \subseteq columns(ProtonFrame)
        /\ [k \in 1..len(protons) |-> Row(protons, k)]
               = LET kept == SelectSeq(Iota(len(ProtonFrame)), Complete)
                 IN  [k \in 1..Len(kept) |->
                        [label |-> ProtonFrame.index[kept[k]],
                         cells |-> [name \in columns(protons) |->
                                       Cell(ProtonFrame, name, kept[k])]]]

\* preprocess returned some rows of a frame with a column entirely NaN and a
\* row with a single NaN
C4_Witness ==
    /\ Preprocessed
    /\ \E c \in 1..Len(ProtonFrame.cols) :
           /\ ProtonFrame.cols[c].numeric
           /\ ~IsForbidden(ProtonFrame.cols[c].name)
           /\ count(ProtonFrame.cols[c]) = 0
    /\ 0 < len(protons)
    /\ len(protons) < len(ProtonFrame)

\* C5: y is as long as X; the first len(gammas) rows of X are the rows of
\* gammas, labelled 1, the next len(protons) rows those of protons, labelled 0.
C5_LabelsFollowRows ==
    AfterConcat =>
        /\ Len(y) = len(X)
        /\ len(X) = len(gammas) + len(protons)
        /\ \A i \in 1..len(X) : y[i] = 1 <=> i <= len(gammas)
        /\ \A i \in 1..len(X) : y[i] \in {0, 1}
        /\ \A i \in 1..len(gammas) :
               /\ X.index[i] = gammas.index[i]
               /\ \A name \in columns(gammas) : Cell(X, name, i) = Cell(gammas, name, i)
        /\ \A j \in 1..len(protons) :
               /\ X.index[len(gammas) + j] = protons.index[j]
               /\ \A name \in columns(protons) :
                      Cell(X, name, len(gammas) + j) = Cell(protons, name, j)

\* X holds rows of both kinds, from frames whose columns differ
C5_Witness ==
    /\ pc = "split"
    /\ len(gammas) >= 1
    /\ len(protons) >= 2
    /\ columns(gammas) # columns(protons)

\* the rows of a frame with their labels
Labelled(frame, lab) == [k \in 1..len(frame) |-> <<Row(frame, k), lab[k]>>]

\* C6: the training rows and the test rows are disjoint and together the rows
\* of X, each with its own label: as multisets of labelled rows, X_train with
\* y_train plus X_test with y_test is X with y.
C6_SplitIsPartition ==
    pc = "fit" =>
        /\ Len(y_train) = len(X_train)
        /\ Len(y_test) = len(X_test)
        /\ len(X_train) + len(X_test) = len(X)
        /\ BagOf(Labelled(X_train, y_train) \o Labelled(X_test, y_test))
               = BagOf(Labelled(X, y))

\* a split of at least three rows of both kinds
C6_Witness ==
    /\ pc = "fit"
    /\ len(X) >= 3
    /\ {0, 1} \subseteq Range(y)
    /\ len(X_train) # len(X_test)

\* C7: X_train and y_train are the training partition train_test_split
\* returned, X_test and y_test its test partition.
C7_NamesMatchPartitions ==
    pc = "fit" =>
        LET ret == train_test_split(X, y, split_perm)
        IN  /\ X_train = ret[1]
            /\ X_test = ret[2]
            /\ y_train = ret[3]
            /\ y_test = ret[4]

(***************************************************************************)
(* smd_neural_networks_torch.ipynb: the training cell and the functions it *)
(* calls.  stack holds the calls in progress as records of the function    *)
(* and the statement it is at.  No function of the notebook has a try      *)
(* statement: an exception leaves the calls one by one.                    *)
(***************************************************************************)
Frame(fn, at) == [fn |-> fn, at |-> at]

Top == stack[Len(stack)]

\* the call on top is function fn at statement at, and no exception is pending
Running(fn, at) == raised = "" /\ stack # <<>> /\ Top = Frame(fn, at)

\* the top call moves to another statement
Goto(at) == [stack EXCEPT ![Len(stack)].at = at]

\* the stack once the top call has returned or an exception has left it
Pop == SubSeq(stack, 1, Len(stack) - 1)

\* the loader a call was given, by the statement of the caller
Loader(at) ==
    IF at \in {"accuracy_train", "train"} THEN train_dataloader ELSE test_dataloader

\* the loader of the loop that is running
Batches == Loader(stack[Len(stack) - 1].at)

\* the value None and the absence of a returned value
None == <<"None">>

NoResult == <<>>

\* a quotient that is nan when total is 0, as the division of two arrays gives
divide_nan(num, den) == [ok |-> TRUE, value |-> <<num, den>>, exc |-> ""]

\* correct / total: the quotient as its two terms, or ZeroDivisionError
divide(num, den) ==
    IF den = 0 THEN [ok |-> FALSE, value |-> NoResult, exc |-> "ZeroDivisionError"]
    ELSE [ok |-> TRUE, value |-> <<num, den>>, exc |-> ""]

\* a loop inside try: ... except Exception: pass, which the functions do not have
caught(fn, e) == ""

\* an exception e raised in the loop of fn: no try statement encloses the loop,
\* e is the exception that leaves the call
uncaught(fn, e) == e

InitTorch ==
    /\ train_dataloader \in 0..MaxBatches
    /\ test_dataloader \in 0..MaxBatches
    /\ stack = <<Frame("cell", "report_accuracy")>>
    /\ raised = ""
    /\ t = 0
    /\ train_losses = <<>>
    /\ test_losses = <<>>
    /\ epoch_loss = <<>>
    /\ fit_losses = <<>>
    /\ losses = <<>>
    /\ batch = 0
    /\ correct = 0
    /\ total = 0
    /\ accuracy_test = <<>>
    /\ result = <<>>
    /\ printed = <<>>
    /\ steps = 0
    /\ attempts = 0
    /\ gamma_events = EmptyFrame
    /\ proton_events = EmptyFrame
    /\ BoostingStart
    /\ KernelIdle

\* report_accuracy(test_dataloader, train_dataloader, model), before the loop
\* and at the end of each epoch
CellReportAccuracy ==
    /\ \/ Running("cell", "report_accuracy")
       \/ Running("cell", "report_accuracy_epoch")
    /\ result = NoResult
    /\ stack' = Append(stack, Frame("report_accuracy", "accuracy_test"))
    /\ UNCHANGED <<boostingVars, kernelVars, train_dataloader, test_dataloader, raised, t,
                   train_losses, test_losses, epoch_loss, fit_losses, losses, batch,
                   correct, total, accuracy_test, result, printed, steps, attempts>>

\* accuracy_test = accuracy(test_dataloader, model);
\* accuracy_train = accuracy(train_dataloader, model)
ReportCallsAccuracy ==
    /\ \/ Running("report_accuracy", "accuracy_test")
       \/ Running("report_accuracy", "accuracy_train")
    /\ result = NoResult
    /\ stack' = Append(stack, Frame("accuracy", "for"))
    /\ correct' = 0
    /\ total' = 0
    /\ batch' = 0
    /\ attempts' = 0
    /\ UNCHANGED <<boostingVars, kernelVars, train_dataloader, test_dataloader, raised, t,
                   train_losses, test_losses, epoch_loss, fit_losses, losses,
                   accuracy_test, result, printed, steps>>

\* one batch of accuracy: total += len(y); correct += the hits of the batch
AccuracyBatch ==
    /\ Running("accuracy", "for")
    /\ batch < Batches
    /\ total' = total + BatchSize
    /\ \E hits \in 0..BatchSize : correct' = correct + hits
    /\ batch' = batch + 1
    /\ attempts' = attempts + 1
    /\ UNCHANGED <<boostingVars, kernelVars, train_dataloader, test_dataloader, stack, raised, t,
                   train_losses, test_losses, epoch_loss, fit_losses, losses,
                   accuracy_test, result, printed, steps>>

\* return correct / total
AccuracyReturn ==
    /\ Running("accuracy", "for")
    /\ batch = Batches
    /\ LET q == divide(correct, total)
       IN  IF q.ok
           THEN result' = q.value /\ stack' = Pop /\ raised' = raised
           ELSE result' = result /\ stack' = stack /\ raised' = q.exc
    /\ correct' = 0
    /\ total' = 0
    /\ UNCHANGED <<boostingVars, kernelVars, train_dataloader, test_dataloader, t, train_losses,
                   test_losses, epoch_loss, fit_losses, losses, batch,
                   accuracy_test, printed, steps, attempts>>

\* report_accuracy binds the value accuracy returned; after the second one it
\* prints both and returns None
ReportPrints ==
    /\ raised = "" /\ stack # <<>> /\ Top.fn = "report_accuracy"
    /\ result # NoResult
    /\ IF Top.at = "accuracy_test"
       THEN /\ accuracy_test' = result
            /\ stack' = Goto("accuracy_train")
            /\ printed' = printed
            /\ result' = NoResult
       ELSE /\ accuracy_test' = NoResult
            /\ stack' = Pop
            /\ printed' = Append(printed, "Accuracy")
            /\ result' = None
    /\ UNCHANGED <<boostingVars, kernelVars, train_dataloader, test_dataloader, raised, t,
                   train_losses, test_losses, epoch_loss, fit_losses, losses, batch,
                   correct, total, steps, attempts>>

\* the cell goes on after report_accuracy: to the for loop, after an epoch
\* with one more epoch done
CellAfterReport ==
    /\ \/ Running("cell", "report_accuracy")
       \/ Running("cell", "report_accuracy_epoch")
    /\ result = None
    /\ t' = IF Top.at = "report_accuracy_epoch" THEN t + 1 ELSE t
    /\ stack' = Goto("for")
    /\ result' = NoResult
    /\ UNCHANGED <<boostingVars, kernelVars, train_dataloader, test_dataloader, raised,
                   train_losses, test_losses, epoch_loss, fit_losses, losses, batch,
                   correct, total, accuracy_test, printed, steps, attempts>>

\* for t in tqdm(range(epochs)): the next epoch, or print("Done!") and on to
\* the cell that calls predictions
CellFor ==
    /\ Running("cell", "for")
    /\ stack' = IF t < Epochs THEN Goto("fit_one_epoch") ELSE Goto("predictions")
    /\ printed' = IF t < Epochs THEN printed ELSE Append(printed, "Done!")
    /\ UNCHANGED <<boostingVars, kernelVars, train_dataloader, test_dataloader, raised, t,
                   train_losses, test_losses, epoch_loss, fit_losses, losses, batch,
                   correct, total, accuracy_test, result, steps, attempts>>

\* epoch_loss_train, epoch_loss_test = fit_one_epoch(...), whose first
\* statement calls train
CellFitOneEpoch ==
    /\ Running("cell", "fit_one_epoch")
    /\ result = NoResult
    /\ stack' = Append(stack, Frame("fit_one_epoch", "train"))
    /\ UNCHANGED <<boostingVars, kernelVars, train_dataloader, test_dataloader, raised, t,
                   train_losses, test_losses, epoch_loss, fit_losses, losses, batch,
                   correct, total, accuracy_test, result, printed, steps, attempts>>

\* train_losses = train(...); test_losses = test(...); prediction, y = predictions(...)
CallsLoop ==
    /\ \/ Running("fit_one_epoch", "train")
       \/ Running("fit_one_epoch", "test")
       \/ Running("cell", "predictions")
    /\ result = NoResult
    /\ stack' = Append(stack, Frame(Top.at, "for"))
    /\ losses' = <<>>
    /\ batch' = 0
    /\ attempts' = 0
    /\ UNCHANGED <<boostingVars, kernelVars, train_dataloader, test_dataloader, raised, t,
                   train_losses, test_losses, epoch_loss, fit_losses, correct, total,
                   accuracy_test, result, printed, steps>>

\* one batch of train: the loss of the batch under the parameters as they
\* are, then optimizer.step(), then losses.append(loss.item())
TrainBatch ==
    /\ Running("train", "for")
    /\ batch < Batches
    /\ losses' = Append(losses, [batch |-> batch + 1, parameters |-> steps])
    /\ steps' = steps + 1
    /\ batch' = batch + 1
    /\ attempts' = attempts + 1
    /\ UNCHANGED <<boostingVars, kernelVars, train_dataloader, test_dataloader, stack, raised, t,
                   train_losses, test_losses, epoch_loss, fit_losses, correct, total,
                   accuracy_test, result, printed>>

\* one batch of test: test_losses.append(loss_fn(pred, y).item()); one batch of
\* predictions: the two appends
EvalBatch ==
    /\ \/ Running("test", "for")
       \/ Running("predictions", "for")
    /\ batch < Batches
    /\ losses' = Append(losses, [batch |-> batch + 1, parameters |-> steps])
    /\ batch' = batch + 1
    /\ attempts' = attempts + 1
    /\ UNCHANGED <<boostingVars, kernelVars, train_dataloader, test_dataloader, stack, raised, t,
                   train_losses, test_losses, epoch_loss, fit_losses, correct, total,
                   accuracy_test, result, printed, steps>>

\* the model, the loss or the optimizer raises on a batch, in train before or
\* after optimizer.step()
BatchRaises ==
    /\ raised = "" /\ stack # <<>>
    /\ Top \in {Frame(fn, "for") : fn \in {"train", "test", "accuracy", "predictions"}}
    /\ batch < Batches
    /\ raised' = uncaught(Top.fn, "RuntimeError")
    /\ attempts' = attempts + 1
    /\ \E stepped \in {FALSE, Top.fn = "train"} :
           steps' = IF stepped THEN steps + 1 ELSE steps
    /\ UNCHANGED <<boostingVars, kernelVars, train_dataloader, test_dataloader, stack, t,
                   train_losses, test_losses, epoch_loss, fit_losses, losses, batch,
                   correct, total, accuracy_test, result, printed>>

\* return losses; return test_losses; return torch.cat(predictions),
\* torch.cat(truth), which raises on an empty list
LoopReturns ==
    /\ raised = "" /\ stack # <<>>
    /\ Top \in {Frame(fn, "for") : fn \in {"train", "test", "predictions"}}
    /\ batch = Batches
    /\ IF Top.fn = "predictions" /\ losses = <<>>
       THEN result' = result /\ stack' = stack /\ raised' = "RuntimeError"
       ELSE result' = <<losses>> /\ stack' = Pop /\ raised' = raised
    /\ UNCHANGED <<boostingVars, kernelVars, train_dataloader, test_dataloader, t, train_losses,
                   test_losses, epoch_loss, fit_losses, losses, batch, correct, total,
                   accuracy_test, printed, steps, attempts>>

\* fit_one_epoch binds what train returned, then returns it with what test
\* returned
FitGoesOn ==
    /\ raised = "" /\ stack # <<>> /\ Top.fn = "fit_one_epoch"
    /\ result # NoResult
    /\ IF Top.at = "train"
       THEN /\ fit_losses' = result[1]
            /\ stack' = Goto("test")
            /\ result' = NoResult
       ELSE /\ fit_losses' = <<>>
            /\ stack' = Pop
            /\ result' = <<fit_losses, result[1]>>
    /\ UNCHANGED <<boostingVars, kernelVars, train_dataloader, test_dataloader, raised, t,
                   train_losses, test_losses, epoch_loss, losses, batch, correct, total,
                   accuracy_test, printed, steps, attempts>>

\* train_losses.append(epoch_loss_train); test_losses.append(epoch_loss_test)
CellAppends ==
    /\ Running("cell", "fit_one_epoch")
    /\ result # NoResult
    /\ epoch_loss' = result
    /\ train_losses' = Append(train_losses, result[1])
    /\ test_losses' = Append(test_losses, result[2])
    /\ stack' = Goto("report_accuracy_epoch")
    /\ result' = NoResult
    /\ UNCHANGED <<boostingVars, kernelVars, train_dataloader, test_dataloader, raised, t,
                   fit_losses, losses, batch, correct, total, accuracy_test, printed,
                   steps, attempts>>

\* the cell binds what predictions returned; the run is over
CellEnds ==
    /\ Running("cell", "predictions")
    /\ result # NoResult
    /\ stack' = Pop
    /\ UNCHANGED <<boostingVars, kernelVars, train_dataloader, test_dataloader, raised, t,
                   train_losses, test_losses, epoch_loss, fit_losses, losses, batch,
                   correct, total, accuracy_test, result, printed, steps, attempts>>

\* no handler: the pending exception leaves the call on top, up to the cell
Unwind ==
    /\ raised # ""
    /\ stack # <<>>
    /\ stack' = Pop
    /\ UNCHANGED <<boostingVars, kernelVars, train_dataloader, test_dataloader, raised, t,
                   train_losses, test_losses, epoch_loss, fit_losses, losses, batch,
                   correct, total, accuracy_test, result, printed, steps, attempts>>

NextTorch ==
    \/ CellReportAccuracy
    \/ ReportCallsAccuracy
    \/ AccuracyBatch
    \/ AccuracyReturn
    \/ ReportPrints
    \/ CellAfterReport
    \/ CellFor
    \/ CellFitOneEpoch
    \/ CallsLoop
    \/ TrainBatch
    \/ EvalBatch
    \/ BatchRaises
    \/ LoopReturns
    \/ FitGoesOn
    \/ CellAppends
    \/ CellEnds
    \/ Unwind

SpecTorch == InitTorch /\ [][NextTorch]_vars

(***************************************************************************)
(* What the claims say of the training cell.                               *)
(***************************************************************************)
\* the cell's lists hold, for each finished epoch, one loss per batch of the loader
CompleteEpochs ==
    /\ \A k \in 1..Len(train_losses) : Len(train_losses[k]) = train_dataloader
    /\ \A k \in 1..Len(test_losses) : Len(test_losses[k]) = test_dataloader

\* an exception has left every call and the cell
Propagated == raised # "" /\ stack = <<>>

\* C9: an exception raised while a batch is processed in train, test, accuracy
\* or predictions is not caught and the batch is not retried: it leaves the
\* calls one by one up to the cell.  The optimizer steps already applied stay,
\* the losses the loop had collected are neither returned nor appended to
\* train_losses or test_losses, and nothing more is printed.
C9_ExceptionPropagates ==
    /\ [](raised = "" => attempts = batch)
    /\ [](raised # "" => result = NoResult)
    /\ []CompleteEpochs
    /\ [][raised # "" =>
            /\ raised' = raised
            /\ stack' = Pop
            /\ UNCHANGED <<steps, train_losses, test_losses, epoch_loss, fit_losses,
                           losses, batch, attempts, t, result, printed>>]_vars

\* train raised at a later batch: steps were applied, a loss was collected, and
\* the exception is out of the cell
C9_Witness ==
    /\ Propagated
    /\ raised = "RuntimeError"
    /\ losses # <<>>
    /\ steps > Len(train_losses) * train_dataloader
    /\ Len(fit_losses) = 0

\* a loader without batches
EmptyLoader == train_dataloader = 0 \/ test_dataloader = 0

\* C10: with a loader that yields no batch, accuracy divides by a total of 0
\* and raises ZeroDivisionError; report_accuracy prints nothing and the
\* exception leaves the cell.  accuracy returns a quotient only for a total
\* that is not 0.
C10_EmptyLoaderRaises ==
    /\ raised = "ZeroDivisionError" => EmptyLoader
    /\ EmptyLoader => printed = <<>>
    /\ EmptyLoader /\ stack = <<>> => raised \in {"ZeroDivisionError", "RuntimeError"}
    /\ test_dataloader = 0 /\ stack = <<>> => raised = "ZeroDivisionError"
    /\ stack # <<>> /\ Top.fn = "report_accuracy" /\ result # NoResult => result[2] # 0

\* accuracy(train_dataloader, model) on an empty training loader, after the
\* accuracy on the test loader has returned
C10_Witness ==
    /\ train_dataloader = 0
    /\ test_dataloader > 0
    /\ Propagated
    /\ raised = "ZeroDivisionError"
    /\ accuracy_test # <<>>
    /\ printed = <<>>

(***************************************************************************)
(* The two notebooks run from top to bottom in a fresh kernel.  A          *)
(* statement is the names it reads from the globals when it runs and the   *)
(* names it binds; a def or class statement reads its default values and   *)
(* base classes when it runs, and its body reads the globals when it is    *)
(* called.  A for statement at the top of a cell is its header followed by *)
(* the statements of its body.  Built-in names are always bound and are    *)
(* left out; a magic cell reads and binds no name.                         *)
(***************************************************************************)
Statement(line, reads, binds, body) ==
    [line |-> line, reads |-> reads, binds |-> binds, body |-> body]

\* the code cells of smd_boosting.ipynb
smd_boosting ==
    <<
      <<Statement(14, {}, {}, {})>>,
      <<Statement(58, {}, {"plots"}, {}),
        Statement(59, {}, {"matplotlib"}, {}),
        Statement(60, {}, {"plt"}, {}),
        Statement(61, {}, {"pd"}, {}),
        Statement(62, {}, {"np"}, {}),
        Statement(63, {}, {"ListedColormap"}, {})>>,
      <<Statement(77, {"pd"}, {}, {}),
        Statement(78, {"plots"}, {}, {})>>,
      <<Statement(87, {}, {}, {})>>,
      <<Statement(150, {}, {}, {})>>,
      <<Statement(195, {}, {"pd"}, {}),
        Statement(196, {}, {"TableLoader"}, {}),
        Statement(197, {}, {"get_dataset_path"}, {})>>,
      <<Statement(206, {"get_dataset_path"}, {"gamma_path"}, {}),
        Statement(207, {"get_dataset_path"}, {"proton_path"}, {})>>,
      <<Statement(216, {"TableLoader", "gamma_path"}, {"loader"}, {}),
        Statement(218, {"loader"}, {}, {})>>,
      <<Statement(232, {}, {"read_events"}, {"TableLoader"})>>,
      <<Statement(256, {"gamma_path", "read_events"}, {"gammas"}, {})>>,
      <<Statement(265, {"gammas"}, {}, {})>>,
      <<Statement(287, {}, {"forbidden_columns"}, {}),
        Statement(288, {"forbidden_columns", "gammas"}, {"gammas"}, {}),
        Statement(290, {"gammas"}, {}, {})>>,
      <<Statement(311, {"gammas"}, {"c"}, {}),
        Statement(312, {"c"}, {}, {}),
        Statement(314, {"c", "gammas"}, {"gammas"}, {})>>,
      <<Statement(335, {"gammas"}, {"desc"}, {}),
        Statement(336, {"desc"}, {}, {})>>,
      <<Statement(350, {"desc"}, {"c"}, {}),
        Statement(351, {"c"}, {}, {}),
        Statement(352, {"c", "gammas"}, {"gammas"}, {})>>,
      <<Statement(368, {"gammas"}, {"c"}, {}),
        Statement(369, {"c"}, {}, {}),
        Statement(370, {"c", "gammas"}, {"gammas"}, {})>>,
      <<Statement(391, {"gammas"}, {}, {}),
        Statement(392, {"gammas"}, {"gammas"}, {}),
        Statement(393, {"gammas"}, {}, {})>>,
      <<Statement(414, {}, {"preprocess"}, {"forbidden_columns"})>>,
      <<Statement(444, {"proton_path", "read_events"}, {"protons"}, {}),
        Statement(445, {"preprocess", "protons"}, {"protons"}, {})>>,
      <<Statement(466, {}, {"feature_generation"}, {"np"}),
        Statement(476, {"feature_generation", "gammas"}, {"gammas"}, {}),
        Statement(477, {"feature_generation", "protons"}, {"protons"}, {}),
        Statement(479, {"gammas"}, {}, {})>>,
      <<Statement(500, {"np"}, {"bins"}, {}),
        Statement(503, {"np"}, {"bins"}, {}),
        Statement(504, {"np"}, {"bins"}, {}),
        Statement(506, {}, {"col"}, {}),
        Statement(508, {"plt"}, {}, {}),
        Statement(509, {"bins", "col", "gammas", "plt"}, {}, {}),
        Statement(510, {"bins", "col", "plt", "protons"}, {}, {}),
        Statement(511, {"plt"}, {}, {}),
        Statement(512, {"col", "plt"}, {}, {}),
        Statement(513, {"plt"}, {}, {}),
        Statement(514, {}, {}, {})>>,
      <<Statement(535, {"gammas", "pd", "protons"}, {"X"}, {}),
        Statement(536, {"gammas", "np", "protons"}, {"y"}, {})>>,
      <<Statement(559, {}, {"train_test_split"}, {}),
        Statement(561, {"X", "train_test_split", "y"},
                  {"X_test", "X_train", "y_test", "y_train"}, {})>>,
      <<Statement(584, {}, {"DecisionTreeClassifier"}, {}),
        Statement(586, {"DecisionTreeClassifier"}, {"rf"}, {}),
        Statement(587, {"X_train", "rf", "y_train"}, {}, {}),
        Statement(589, {"X_test", "rf"}, {"y_prediction"}, {}),
        Statement(590, {"X_test", "rf"}, {"y_prediction_proba"}, {})>>,
      <<Statement(608, {"gammas", "pd", "rf"}, {"importance"}, {}),
        Statement(611, {"plt"}, {}, {}),
        Statement(612, {"importance"}, {}, {})>>,
      <<Statement(626, {}, {"accuracy_score", "roc_auc_score", "roc_curve"}, {}),
        Statement(628, {"accuracy_score", "y_prediction", "y_test"}, {"acc"}, {}),
        Statement(629, {"roc_auc_score", "y_prediction_proba", "y_test"}, {"auc"}, {}),
        Statement(630, {"roc_curve", "y_prediction_proba", "y_test"},
                  {"fpr", "thresholds", "tpr"}, {})>>,
      <<Statement(646, {"plt"}, {}, {}),
        Statement(647, {"fpr", "plt", "thresholds", "tpr"}, {}, {}),
        Statement(648, {"plt"}, {}, {}),
        Statement(649, {"plt"}, {}, {}),
        Statement(650, {"plt"}, {}, {}),
        Statement(651, {"fpr", "plt", "tpr"}, {}, {}),
        Statement(652, {"acc", "auc", "plt"}, {}, {}),
        Statement(653, {"plt"}, {}, {}),
        Statement(654, {}, {}, {})>>,
      <<Statement(675, {}, {"cross_validate"}, {}),
        Statement(677, {"DecisionTreeClassifier"}, {"rf"}, {}),
        Statement(679, {}, {"scoring"}, {}),
        Statement(683, {"X", "cross_validate", "rf", "scoring", "y"}, {"results"}, {}),
        Statement(684, {"results"}, {}, {})>>,
      <<Statement(698, {"results"}, {"auc"}, {}),
        Statement(699, {"results"}, {"recall"}, {}),
        Statement(700, {"results"}, {"acc"}, {}),
        Statement(702, {"auc"}, {}, {}),
        Statement(703, {"acc"}, {}, {}),
        Statement(704, {"recall"}, {}, {})>>,
      <<Statement(782, {}, {"AdaBoostClassifier"}, {}),
        Statement(784, {"AdaBoostClassifier", "DecisionTreeClassifier"}, {"ada"}, {}),
        Statement(789, {"X_train", "ada", "y_train"}, {}, {}),
        Statement(791, {"X_test", "ada"}, {"y_prediction"}, {}),
        Statement(792, {"X_test", "ada"}, {"y_prediction_proba"}, {})>>,
      <<Statement(806, {"X_test", "ada", "np", "y_test"}, {"scores"}, {}),
        Statement(808, {"plt"}, {}, {}),
        Statement(809, {"plt", "scores"}, {}, {}),
        Statement(810, {"plt"}, {}, {}),
        Statement(811, {"plt"}, {}, {}),
        Statement(812, {}, {}, {})>>,
      <<Statement(826, {"accuracy_score", "y_prediction", "y_test"}, {"acc"}, {}),
        Statement(827, {"roc_auc_score", "y_prediction_proba", "y_test"}, {"auc"}, {}),
        Statement(828, {"roc_curve", "y_prediction_proba", "y_test"},
                  {"fpr", "thresholds", "tpr"}, {}),
        Statement(830, {"plt"}, {}, {}),
        Statement(831, {"fpr", "plt", "thresholds", "tpr"}, {}, {}),
        Statement(832, {"fpr", "plt", "tpr"}, {}, {}),
        Statement(833, {"acc", "auc", "plt"}, {}, {}),
        Statement(834, {}, {}, {})>>,
      <<Statement(894, {}, {"GradientBoostingClassifier"}, {}),
        Statement(896, {"GradientBoostingClassifier"}, {"grb"}, {}),
        Statement(900, {"X_train", "grb", "y_train"}, {}, {}),
        Statement(902, {"X_test", "grb"}, {"y_prediction"}, {}),
        Statement(903, {"X_test", "grb"}, {"y_prediction_proba"}, {})>>,
      <<Statement(917, {"X_test", "accuracy_score", "grb", "y_test"}, {"l"}, {}),
        Statement(919, {"plt"}, {}, {}),
        Statement(920, {"l", "plt"}, {}, {}),
        Statement(921, {"plt"}, {}, {}),
        Statement(922, {"plt"}, {}, {}),
        Statement(923, {}, {}, {})>>,
      <<Statement(937, {"accuracy_score", "y_prediction", "y_test"}, {"acc"}, {}),
        Statement(938, {"roc_auc_score", "y_prediction_proba", "y_test"}, {"auc"}, {}),
        Statement(939, {"roc_curve", "y_prediction_proba", "y_test"},
                  {"fpr", "thresholds", "tpr"}, {}),
        Statement(941, {"plt"}, {}, {}),
        Statement(942, {"fpr", "plt", "thresholds", "tpr"}, {}, {}),
        Statement(943, {"fpr", "plt", "tpr"}, {}, {}),
        Statement(944, {"acc", "auc", "plt"}, {}, {}),
        Statement(945, {}, {}, {})>>,
      <<Statement(968, {}, {"RandomForestClassifier"}, {}),
        Statement(970, {"RandomForestClassifier"}, {"rf"}, {}),
        Statement(971, {"X_train", "rf", "y_train"}, {}, {}),
        Statement(973, {"X_test", "rf"}, {"y_prediction"}, {}),
        Statement(974, {"X_test", "rf"}, {"y_prediction_proba"}, {})>>,
      <<Statement(988, {"accuracy_score", "y_prediction", "y_test"}, {"acc"}, {}),
        Statement(989, {"roc_auc_score", "y_prediction_proba", "y_test"}, {"auc"}, {}),
        Statement(990, {"roc_curve", "y_prediction_proba", "y_test"},
                  {"fpr", "thresholds", "tpr"}, {}),
        Statement(992, {"plt"}, {}, {}),
        Statement(993, {"fpr", "plt", "thresholds", "tpr"}, {}, {}),
        Statement(994, {"fpr", "plt", "tpr"}, {}, {}),
        Statement(995, {"acc", "auc", "plt"}, {}, {}),
        Statement(996, {}, {}, {})>>
    >>

\* the code cells of smd_neural_networks_torch.ipynb
smd_neural_networks_torch ==
    <<
      <<Statement(18, {}, {}, {})>>,
      <<Statement(38, {}, {"plt"}, {}),
        Statement(39, {}, {"np"}, {}),
        Statement(41, {}, {"tqdm"}, {}),
        Statement(43, {}, {"torch"}, {}),
        Statement(44, {}, {"nn"}, {}),
        Statement(45, {}, {"DataLoader"}, {}),
        Statement(46, {}, {"datasets"}, {}),
        Statement(47, {}, {"Compose", "Resize", "ToTensor"}, {})>>,
      <<Statement(57, {}, {}, {})>>,
      <<Statement(82, {"nn"}, {"FullyConnected"}, {"nn"})>>,
      <<Statement(111, {"FullyConnected"}, {}, {})>>,
      <<Statement(129, {"nn"}, {"FullyConnected"}, {"nn"}),
        Statement(159, {"FullyConnected"}, {}, {})>>,
      <<Statement(185, {"torch"}, {"DEVICE"}, {}),
        Statement(186, {"DEVICE"}, {}, {})>>,
      <<Statement(196, {"DEVICE"}, {"train"}, {}),
        Statement(218, {"DEVICE"}, {"test"}, {"torch"}),
        Statement(231, {"DEVICE"}, {"fit_one_epoch"}, {"test", "train"}),
        Statement(237, {"DEVICE"}, {"accuracy"}, {"torch"}),
        Statement(251, {"DEVICE"}, {"predictions"}, {"torch"}),
        Statement(264, {}, {"report_accuracy"}, {"accuracy"})>>,
      <<Statement(285, {"Compose", "Resize", "ToTensor", "datasets"}, {"mnist_train"}, {}),
        Statement(292, {"Compose", "Resize", "ToTensor", "datasets"}, {"mnist_test"}, {})>>,
      <<Statement(308, {}, {"batch_size"}, {}),
        Statement(310, {"DataLoader", "batch_size", "mnist_train"}, {"train_dataloader"}, {}),
        Statement(311, {"DataLoader", "batch_size", "mnist_test"}, {"test_dataloader"}, {}),
        Statement(315, {"test_dataloader"}, {"X", "y"}, {}),
        Statement(317, {"X"}, {}, {}),
        Statement(318, {"y"}, {}, {})>>,
      <<Statement(328, {"plt"}, {"axs", "fig"}, {}),
        Statement(330, {"axs"}, {"ax", "i"}, {}),
        Statement(331, {"X", "ax", "i"}, {}, {})>>,
      <<Statement(341, {"FullyConnected", "X", "mnist_train"}, {"model"}, {}),
        Statement(348, {"nn"}, {"loss_fn"}, {}),
        Statement(349, {"model", "torch"}, {"optimizer"}, {}),
        Statement(352, {}, {"epochs"}, {}),
        Statement(353, {}, {"test_losses"}, {}),
        Statement(354, {}, {"train_losses"}, {}),
        Statement(355, {"model", "report_accuracy", "test_dataloader", "train_dataloader"}, {}, {}),
        Statement(356, {"epochs", "tqdm"}, {"t"}, {}),
        Statement(357, {"fit_one_epoch", "loss_fn", "model", "optimizer", "test_dataloader",
                  "train_dataloader"},
                  {"epoch_loss_test", "epoch_loss_train"}, {}),
        Statement(360, {"epoch_loss_train", "train_losses"}, {}, {}),
        Statement(361, {"epoch_loss_test", "test_losses"}, {}, {}),
        Statement(362, {"model", "report_accuracy", "test_dataloader", "train_dataloader"}, {}, {}),
        Statement(364, {}, {}, {})>>,
      <<Statement(374, {}, {"plot_losses"}, {"np", "plt"})>>,
      <<Statement(398, {"plot_losses", "test_losses", "train_losses"}, {}, {}),
        Statement(399, {"plt"}, {}, {})>>,
      <<Statement(417, {"ToTensor", "datasets"}, {"cifar10_train"}, {}),
        Statement(424, {"ToTensor", "datasets"}, {"cifar10_test"}, {})>>,
      <<Statement(439, {}, {"batch_size"}, {}),
        Statement(441, {"DataLoader", "batch_size", "cifar10_train"}, {"train_dataloader"}, {}),
        Statement(442, {"DataLoader", "batch_size", "cifar10_test"}, {"test_dataloader"}, {}),
        Statement(445, {"test_dataloader"}, {"X", "y"}, {}),
        Statement(447, {"X"}, {}, {}),
        Statement(448, {"y"}, {}, {})>>,
      <<Statement(460, {"plt"}, {"axs", "fig"}, {}),
        Statement(462, {"axs"}, {"ax", "idx"}, {}),
        Statement(463, {"X", "idx", "np"}, {"img"}, {}),
        Statement(466, {"ax", "cifar10_train", "idx", "y"}, {}, {}),
        Statement(467, {"ax", "img"}, {}, {}),
        Statement(468, {"ax"}, {}, {})>>,
      <<Statement(478, {"FullyConnected", "X", "cifar10_train"}, {"model"}, {})>>,
      <<Statement(491, {"nn"}, {"loss_fn"}, {}),
        Statement(492, {"model", "torch"}, {"optimizer"}, {}),
        Statement(495, {}, {"test_losses"}, {}),
        Statement(496, {}, {"train_losses"}, {}),
        Statement(499, {"model", "report_accuracy", "test_dataloader", "train_dataloader"}, {}, {}),
        Statement(501, {}, {"epochs"}, {}),
        Statement(502, {"epochs", "tqdm"}, {"t"}, {}),
        Statement(503, {"fit_one_epoch", "loss_fn", "model", "optimizer", "test_dataloader",
                  "train_dataloader"},
                  {"epoch_loss_test", "epoch_loss_train"}, {}),
        Statement(506, {"epoch_loss_train", "train_losses"}, {}, {}),
        Statement(507, {"epoch_loss_test", "test_losses"}, {}, {}),
        Statement(508, {"model", "report_accuracy", "test_dataloader", "train_dataloader"}, {}, {}),
        Statement(510, {}, {}, {})>>,
      <<Statement(520, {"plot_losses", "test_losses", "train_losses"}, {}, {}),
        Statement(521, {"plt"}, {}, {})>>,
      <<Statement(547, {"nn"}, {"ConvolutionalNetwork"}, {"nn"})>>,
      <<Statement(601, {"ConvolutionalNetwork"}, {"model"}, {})>>,
      <<Statement(611, {"nn"}, {"loss_fn"}, {}),
        Statement(612, {"model", "torch"}, {"optimizer"}, {}),
        Statement(614, {}, {"test_losses"}, {}),
        Statement(615, {}, {"train_losses"}, {})>>,
      <<Statement(625, {}, {"epochs"}, {}),
        Statement(628, {"model", "report_accuracy", "test_dataloader", "train_dataloader"}, {}, {}),
        Statement(630, {"epochs", "tqdm"}, {"t"}, {}),
        Statement(631, {"fit_one_epoch", "loss_fn", "model", "optimizer", "test_dataloader",
                  "train_dataloader"},
                  {"epoch_loss_test", "epoch_loss_train"}, {}),
        Statement(634, {"epoch_loss_train", "train_losses"}, {}, {}),
        Statement(635, {"epoch_loss_test", "test_losses"}, {}, {}),
        Statement(636, {"model", "report_accuracy", "test_dataloader", "train_dataloader"}, {}, {}),
        Statement(638, {}, {}, {})>>,
      <<Statement(648, {"plot_losses", "test_losses", "train_losses"}, {}, {})>>,
      <<Statement(658, {"model", "predictions", "test_dataloader"}, {"prediction", "y"}, {})>>,
      <<Statement(668, {}, {"confusion_matrix"}, {}),
        Statement(671, {}, {"classes"}, {}),
        Statement(674, {"confusion_matrix", "prediction", "y"}, {"matrix"}, {}),
        Statement(675, {"matrix", "np"}, {"matrix"}, {}),
        Statement(677, {"matrix", "plt"}, {}, {}),
        Statement(678, {"classes", "np", "plt"}, {}, {}),
        Statement(679, {"classes", "np", "plt"}, {}, {}),
        Statement(680, {"plt"}, {}, {}),
        Statement(681, {}, {}, {})>>
    >>

\* the code cells run from the last to the first
cells_reversed(nb) ==
    LET c == IF nb = "smd_boosting" THEN smd_boosting ELSE smd_neural_networks_torch
    IN  [k \in 1..Len(c) |-> c[Len(c) + 1 - k]]

\* the code cells of a notebook in the order of the file
cells(nb) == IF nb = "smd_boosting" THEN smd_boosting ELSE smd_neural_networks_torch

\* the names a statement needs bound: those it reads, and those the bodies of
\* the functions and classes it reads read in turn
RECURSIVE needs(_, _)
needs(names, ns) ==
    LET more == names \cup UNION {ns[n] : n \in names \cap DOMAIN ns}
    IN  IF more = names THEN names ELSE needs(more, ns)

\* ns after a statement has bound its names
bind(ns, s) ==
    [n \in DOMAIN ns \cup s.binds |-> IF n \in s.binds THEN s.body ELSE ns[n]]

InCell == code_cell \in 1..Len(cells(notebook))

AtStatement == error = "" /\ InCell /\ statement \in 1..Len(cells(notebook)[code_cell])

Current == cells(notebook)[code_cell][statement]

InitCells ==
    /\ notebook \in {"smd_boosting", "smd_neural_networks_torch"}
    /\ code_cell = 1
    /\ statement = 1
    /\ namespace = <<>>
    /\ error = ""
    /\ gamma_events = EmptyFrame
    /\ proton_events = EmptyFrame
    /\ BoostingStart
    /\ TorchIdle

\* the statement runs: NameError if a name it needs is not bound, else its names
\* are bound
RunStatement ==
    /\ AtStatement
    /\ IF needs(Current.reads, namespace) \subseteq DOMAIN namespace
       THEN /\ namespace' = bind(namespace, Current)
            /\ statement' = statement + 1
            /\ error' = error
       ELSE /\ error' = "NameError"
            /\ UNCHANGED <<namespace, statement>>
    /\ UNCHANGED <<boostingVars, torchVars, notebook, code_cell>>

\* the statement calls into a library or a function, which raises: the run stops
StatementRaises ==
    /\ AtStatement
    /\ Current.reads # {}
    /\ needs(Current.reads, namespace) \subseteq DOMAIN namespace
    /\ error' = "Exception"
    /\ UNCHANGED <<boostingVars, torchVars, notebook, code_cell, statement, namespace>>

\* the cell is done, the next one runs
NextCell ==
    /\ error = ""
    /\ InCell
    /\ statement = Len(cells(notebook)[code_cell]) + 1
    /\ code_cell' = code_cell + 1
    /\ statement' = 1
    /\ UNCHANGED <<boostingVars, torchVars, notebook, namespace, error>>

NextCells ==
    \/ RunStatement
    \/ StatementRaises
    \/ NextCell

SpecCells == InitCells /\ [][NextCells]_vars

\* C8: run from top to bottom in a fresh kernel, no statement of either
\* notebook reads a name that no earlier cell and no earlier statement of its
\* cell has bound, the names a function body reads from the globals included:
\* no NameError is raised.
C8_BoundBeforeUse ==
    /\ error # "NameError"
    /\ AtStatement => needs(Current.reads, namespace) \subseteq DOMAIN namespace

\* protons = preprocess(protons) is about to run: the body of preprocess reads
\* forbidden_columns, which the filter cell has bound
C8_Witness ==
    /\ notebook = "smd_boosting"
    /\ AtStatement
    /\ "preprocess" \in Current.reads
    /\ "forbidden_columns" \in needs(Current.reads, namespace) \ Current.reads
    /\ "forbidden_columns" \in DOMAIN namespace


====
